---- MODULE Spec2Model ----
(***************************************************************************)
(* Ingestion pipeline of the SIRA RAG service: the ingestion routes, the   *)
(* IngestionService job orchestration and the Firestore collections it     *)
(* writes (ingestion jobs, knowledge base, embeddings).                    *)
(*                                                                         *)
(* A job's processing task is an async function: every action of the task  *)
(* lands the result of the call it is awaiting and runs the code up to the *)
(* next await.  Route handlers interleave with the task at the awaits.     *)
(***************************************************************************)
EXTENDS Integers, Sequences, FiniteSets, TLC

(* ------------------------------ bounds -------------------------------- *)

\* Largest number of records one provider call returns.
MaxRecords == 2

\* Largest number of failing external calls (store, provider, embedder).
MaxFaults == 1

\* Largest number of DELETE /job/:jobId requests.
MaxCancels == 1

\* Largest number of loop iterations of chunkText that are followed.
MaxChunkSteps == 12
MaxTextLen == 8
MaxTexts == 3
MaxBatchSize == 2

(* ------------------------- program constants -------------------------- *)

DefaultLimit == 100
DefaultBatchSize == 10
RouteBatchSize == 10
ConfigChunkSize == 1000
ConfigChunkOverlap == 200
maxTextLength == 8192
EmbedBatchSize == 100
vectorDimension == 768

Sources == {"gbif", "iucn", "obis", "ebird"}

(* ------------------------------ inputs -------------------------------- *)

AllJobIds == {"j1", "j2"}

\* A field that a request or an options object leaves out.
NoFields == << >>

\* Values of req.body.source: the supported providers, another string and
\* the empty string (falsy, like a missing field).
BodySources == Sources \cup {"inat", ""}

\* Values of parameters.limit: absent, or a number (the route passes any
\* number on).
BodyParameters == {NoFields, [limit |-> 2], [limit |-> -1]}

\* Configurations of a typed call of startIngestionJob (its source is one of
\* the union type's four values).
ServiceConfigs ==
    { [source |-> "gbif", parameters |-> NoFields,
       options |-> [batchSize |-> 1, chunkSize |-> 4, chunkOverlap |-> 1]],
      [source |-> "ebird", parameters |-> [limit |-> 2],
       options |-> [generateEmbeddings |-> FALSE]] }

\* Messages of a failing provider call.
ProviderErrors == {"HTTP 503: Service Unavailable"}

\* A raw record is null (normalisation throws on it) or an object whose
\* text summary has the given length.
ShortLen == 3
LongLen == 6
NullItem == [kind |-> "null", len |-> 0]
RawItems == {NullItem, [kind |-> "object", len |-> ShortLen],
             [kind |-> "object", len |-> LongLen]}

\* The ingestion code never reads the components of a vector: the vector
\* the embedder returns is described by its length and by whether all its
\* components are finite numbers.
GoodVector == [length |-> vectorDimension, finite |-> TRUE]
EmbedderVectors ==
    {GoodVector, [length |-> vectorDimension - 1, finite |-> TRUE],
     [length |-> vectorDimension, finite |-> FALSE]}

RECURSIVE SeqsUpTo(_, _)
SeqsUpTo(S, n) ==
    IF n = 0 THEN {<< >>}
    ELSE LET shorter == SeqsUpTo(S, n - 1)
         IN  shorter \cup {Append(s, x) : s \in {t \in shorter : Len(t) = n - 1}, x \in S}

(* ------------------------------ helpers ------------------------------- *)

Min(a, b) == IF a <= b THEN a ELSE b

RoundPercentRemaining(num, den) == (200 * (den - num) + den) \div (2 * den)

\* Math.round((num / den) * 100) for num >= 0, den > 0.
RoundPercent(num, den) == (200 * num + den) \div (2 * den)

\* JavaScript `obj.key || dflt` for a numeric field.
OrDefault(obj, key, dflt) ==
    IF key \in DOMAIN obj /\ obj[key] # 0 THEN obj[key] ELSE dflt

\* Firestore DocumentReference.update: the named top-level fields are
\* replaced, every other field of the document is kept.
Merge(doc, updates) ==
    [f \in DOMAIN doc \cup DOMAIN updates |->
        IF f \in DOMAIN updates THEN updates[f] ELSE doc[f]]

Put(coll, id, doc) ==
    [k \in DOMAIN coll \cup {id} |-> IF k = id THEN doc ELSE coll[k]]

\* A text is a window [from, to) of the summary it was cut from.
Text(from, to) == [from |-> from, to |-> to]
TextLen(t) == t.to - t.from

\* String.prototype.substring(a, b) on a window: both indexes are clamped to
\* [0, length] and swapped when a > b.
Substring(t, a, b) ==
    LET lo == Min(IF a < 0 THEN 0 ELSE a, TextLen(t))
        hi == Min(IF b < 0 THEN 0 ELSE b, TextLen(t))
    IN  Text(t.from + Min(lo, hi), t.from + (IF lo <= hi THEN hi ELSE lo))

Contains(seq, x) == \E k \in 1..Len(seq) : seq[k] = x

\* new IngestionError(source, message).message
IngestionErrorMessage(source, message) == <<"Ingestion", source>> \o message

(* --------------------------- pure functions --------------------------- *)

\* The while loop of chunkText; done is FALSE when the loop is still running
\* after MaxChunkSteps iterations.
RECURSIVE chunkTextLoop(_, _, _, _, _, _)
chunkTextLoop(text, chunkSize, overlap, start, chunks, steps) ==
    IF ~(start < TextLen(text)) THEN [chunks |-> chunks, done |-> TRUE]
    ELSE IF steps = 0 THEN [chunks |-> chunks, done |-> FALSE]
    ELSE LET end == Min(start + chunkSize, TextLen(text))
             chunk == Substring(text, start, end)
         IN  IF end = TextLen(text)
             THEN [chunks |-> Append(chunks, chunk), done |-> TRUE]
             ELSE chunkTextLoop(text, chunkSize, overlap, end - overlap,
                                Append(chunks, chunk), steps - 1)

chunkTextNoOverlap(text, chunkSize, overlap) ==
    chunkTextLoop(text, chunkSize, 0, 0, << >>, MaxChunkSteps)

chunkText(text, chunkSize, overlap) ==
    chunkTextLoop(text, chunkSize, overlap, 0, << >>, MaxChunkSteps)

\* processDataItem: the document of one raw record, or null (no document)
\* when the source is unknown or the normalisation throws.
processDataItem(item, source) ==
    IF source \in Sources /\ item.kind # "null"
    THEN <<[content |-> Text(0, item.len), chunks |-> << >>]>>
    ELSE << >>

\* The text generateEmbedding hands to the embedder and returns as `text`.
processedText(text) ==
    IF TextLen(text) > maxTextLength THEN Substring(text, 0, maxTextLength) ELSE text

(* ------------------------------- state -------------------------------- *)

VARIABLES
    db,             \* ingestion-jobs collection: job id -> job document
    task,           \* job id -> the locals of its processIngestionJob call
    knowledgeBase,  \* knowledge-base collection, in insertion order
    embeddings,     \* embeddings collection, in insertion order
    idPool,         \* job ids startIngestionJob has not generated yet
    clock,          \* the next value of Timestamp.now()
    faults,         \* failing external calls so far
    cancels,        \* DELETE requests so far
    updateErrors,   \* "Failed to update job status" log entries per job
    response,       \* the last HTTP response sent by a route
    call,           \* the request of a retrieval route that is in flight
    searchLog,      \* "Starting vector search" log entries
    batch           \* the locals of the generateBatchEmbeddings call

vars == <<db, task, knowledgeBase, embeddings, idPool, clock, faults, cancels,
          updateErrors, response, call, searchLog, batch>>

\* The state of the retrieval routes, which no ingestion code touches.
ragVars == <<call, searchLog, batch>>

IdleTask ==
    [pc |-> "idle", config |-> NoFields, pending |-> NoFields,
     rawData |-> << >>, documents |-> << >>, i |-> 0, b |-> 0, d |-> 0, c |-> 0,
     documentId |-> 0, embeddingResponse |-> NoFields,
     documentsIngested |-> 0, embeddingsCreated |-> 0, errors |-> 0,
     caught |-> << >>]

NoResponse == [route |-> "none", status |-> 0, jobId |-> ""]
NoCall == [route |-> "none", body |-> << >>]
IdleBatch ==
    [pc |-> "idle", i |-> 0, items |-> << >>, embeddings |-> << >>,
     successCount |-> 0, errorCount |-> 0]

Init ==
    /\ db = << >>
    /\ task = [j \in AllJobIds |-> IdleTask]
    /\ knowledgeBase = << >>
    /\ embeddings = << >>
    /\ idPool = {"j1"}
    /\ clock = 1
    /\ faults = 0
    /\ cancels = 0
    /\ updateErrors = [j \in AllJobIds |-> 0]
    /\ response = NoResponse
    /\ call = NoCall
    /\ searchLog = 0
    /\ batch = IdleBatch

(* ------------------------ the job's configuration --------------------- *)

limitOf(cfg) == OrDefault(cfg.parameters, "limit", DefaultLimit)
chunkSizeOf(cfg) == OrDefault(cfg.options, "chunkSize", ConfigChunkSize)
chunkOverlapOf(cfg) == OrDefault(cfg.options, "chunkOverlap", ConfigChunkOverlap)
batchSizeOf(cfg) == OrDefault(cfg.options, "batchSize", DefaultBatchSize)
generateEmbeddingsAlways(cfg) == TRUE

generateEmbeddingsOf(cfg) ==
    ~("generateEmbeddings" \in DOMAIN cfg.options /\ cfg.options.generateEmbeddings = FALSE)

Progress(phase, processed, total, percentage) ==
    [phase |-> phase, processed |-> processed, total |-> total,
     percentage |-> percentage]

(* ---------------- processIngestionJob, up to the next await ----------- *)

CatchBlockGenericMessage(t, errorMessage, now) ==
    [t EXCEPT !.pc = "failed_write", !.caught = errorMessage,
              !.pending = [status |-> "failed", completedAt |-> now,
                           error |-> <<"Ingestion failed">>]]

\* The catch block of processIngestionJob: the failed update is issued.
CatchBlock(t, errorMessage, now) ==
    [t EXCEPT !.pc = "failed_write", !.caught = errorMessage,
              !.pending = [status |-> "failed", completedAt |-> now,
                           error |-> errorMessage]]

\* The catch block of updateJobStatus: a failing update is logged and not
\* rethrown, so the caller goes on to `next` as after a successful update.
AfterUpdateRethrows(t, next, ok, now) ==
    IF ok THEN next ELSE CatchBlock(t, <<"Failed to update job status">>, now)

AfterUpdate(t, next, ok, now) == next

CompletedUpdateKeepsProgress(t, now) ==
    [status |-> "completed", completedAt |-> now,
     results |-> [documentsIngested |-> t.documentsIngested,
                  embeddingsCreated |-> t.embeddingsCreated,
                  errors |-> t.errors]]

\* The update that marks the job completed.
CompletedUpdate(t, now) ==
    [status |-> "completed", completedAt |-> now,
     progress |-> Progress("completed", t.documentsIngested, t.documentsIngested, 100),
     results |-> [documentsIngested |-> t.documentsIngested,
                  embeddingsCreated |-> t.embeddingsCreated,
                  errors |-> t.errors]]

\* storeDocumentsWithEmbeddings returned: the completed update is issued.
IssueCompleted(t, now) ==
    [t EXCEPT !.pc = "completed_write", !.pending = CompletedUpdate(t, now)]

\* Head of the batch loop of storeDocumentsWithEmbeddings with i = b.
BatchLoop(t, b, now) ==
    IF b < Len(t.documents)
    THEN [t EXCEPT !.b = b, !.d = 0, !.c = 0, !.pc = "store_document"]
    ELSE IssueCompleted([t EXCEPT !.b = b], now)

\* The document the storing loop is at.
CurrentDoc(t) == t.documents[t.b + t.d + 1]

\* The storing loop moves to the next document of the batch, or issues the
\* progress update that ends the batch.
NextDocument(t) ==
    LET n == Len(t.documents)
        processed == Min(t.b + batchSizeOf(t.config), n)
    IN  IF t.b + t.d + 1 < processed
        THEN [t EXCEPT !.d = @ + 1, !.c = 0, !.pc = "store_document"]
        ELSE [t EXCEPT !.pc = "storing_progress_write",
                       !.pending = [progress |->
                           Progress("storing", processed, n, RoundPercent(processed, n))]]

DocumentFailedUncounted(t) == NextDocument(t)

DocumentFailedCountsIngested(t) ==
    NextDocument([t EXCEPT !.errors = @ + 1, !.documentsIngested = @ + 1])

DocumentFailedEndsBatch(t) ==
    LET n == Len(t.documents)
        processed == Min(t.b + batchSizeOf(t.config), n)
    IN  [t EXCEPT !.errors = @ + 1, !.pc = "storing_progress_write",
                  !.pending = [progress |->
                      Progress("storing", processed, n, RoundPercent(processed, n))]]

\* The catch block of the per-document try of storeDocumentsWithEmbeddings.
DocumentFailed(t) == NextDocument([t EXCEPT !.errors = @ + 1])

BeginStoringKeepsPercentage(t) ==
    [t EXCEPT !.pc = "storing_begin_write", !.b = 0, !.d = 0, !.c = 0,
              !.pending = [progress |-> Progress("storing", 0, Len(t.documents), 100)]]

\* storeDocumentsWithEmbeddings up to its first update.
BeginStoring(t) ==
    [t EXCEPT !.pc = "storing_begin_write", !.b = 0, !.d = 0, !.c = 0,
              !.pending = [progress |-> Progress("storing", 0, Len(t.documents), 0)]]

\* One iteration of the loop of processDocuments on rawData[i + 1]: the item
\* is normalised and chunked, and the progress update is issued.
ProcessItem(t) ==
    LET cfg == t.config
        n == Len(t.rawData)
        processedDoc == processDataItem(t.rawData[t.i + 1], cfg.source)
        long == processedDoc # << >> /\ TextLen(processedDoc[1].content) > chunkSizeOf(cfg)
        chunked == chunkText(processedDoc[1].content, chunkSizeOf(cfg), chunkOverlapOf(cfg))
        docs == IF processedDoc = << >> THEN << >>
                ELSE IF long THEN <<[processedDoc[1] EXCEPT !.chunks = chunked.chunks]>>
                ELSE processedDoc
    IN  IF long /\ ~chunked.done
        THEN [t EXCEPT !.pc = "chunking"]
        ELSE [t EXCEPT !.documents = @ \o docs, !.i = @ + 1,
                       !.pc = "processing_write",
                       !.pending = [progress |->
                           Progress("processing", t.i + 1, n, RoundPercent(t.i + 1, n))]]

ProcessLoopStopsEarly(t) ==
    IF t.i + 1 < Len(t.rawData) THEN ProcessItem(t) ELSE BeginStoring(t)

\* The loop of processDocuments after i items.
ProcessLoop(t) ==
    IF t.i < Len(t.rawData) THEN ProcessItem(t) ELSE BeginStoring(t)

\* processDocuments up to its first update.
BeginProcessing(t, rawData) ==
    [t EXCEPT !.rawData = rawData, !.i = 0, !.documents = << >>,
              !.pc = "processing_write",
              !.pending = [progress |-> Progress("processing", 0, Len(rawData), 0)]]

\* fetchDataFromSource up to its first update.
BeginFetching(t) ==
    [t EXCEPT !.pc = "fetching_write",
              !.pending = [progress |-> Progress("fetching", 0, limitOf(t.config), 0)]]

\* processIngestionJob up to its first update.
BeginJob(cfg, now) ==
    [IdleTask EXCEPT !.pc = "running_write", !.config = cfg,
                     !.pending = [status |-> "running", startedAt |-> now]]

(* ------------------------------ actions ------------------------------- *)

\* An external call returns (ok) or throws; the number of throwing calls is
\* bounded.
Outcome(ok) ==
    /\ ok \/ faults < MaxFaults
    /\ faults' = IF ok THEN faults ELSE faults + 1

\* updateJobStatus: the awaited update of the job document lands, or fails,
\* is logged and swallowed.
updateJobStatus(j, ok) ==
    /\ db' = IF ok THEN [db EXCEPT ![j] = Merge(@, task[j].pending)] ELSE db
    /\ updateErrors' = IF ok THEN updateErrors
                       ELSE [updateErrors EXCEPT ![j] = @ + 1]

WritePcs == {"running_write", "fetching_write", "processing_write",
             "storing_begin_write", "storing_progress_write",
             "completed_write", "failed_write"}

\* The task of job j continues as t; Timestamp.now() was read when t issued
\* the completed or the failed update.
Resume(j, t) ==
    /\ task' = [task EXCEPT ![j] =
                  IF t.pc \in WritePcs THEN t ELSE [t EXCEPT !.pending = NoFields]]
    /\ clock' = IF t.pc \in {"completed_write", "failed_write"} /\ task[j].pc # t.pc
                THEN clock + 1 ELSE clock

\* startIngestionJob(config) with the generated id j.
startIngestionJob(j, cfg, ok) ==
    /\ idPool' = idPool \ {j}
    /\ IF ok
       THEN /\ db' = Put(db, j, [source |-> cfg.source, status |-> "queued",
                                 progress |-> Progress("fetching", 0, 0, 0),
                                 config |-> cfg, createdAt |-> clock])
            /\ task' = [task EXCEPT ![j] = BeginJob(cfg, clock + 1)]
            /\ clock' = clock + 2
       ELSE /\ clock' = clock + 1
            /\ UNCHANGED <<db, task>>
    /\ UNCHANGED <<knowledgeBase, embeddings, cancels, updateErrors>>

ValidSourcePresent(source) == source # ""

\* The body check of POST /start.
ValidSource(source) == source # "" /\ source \in Sources

\* router.post("/start")
PostStart(j, source, parameters) ==
    /\ j \in idPool
    /\ IF ~ValidSource(source)
       THEN /\ response' = [route |-> "POST /start", status |-> 400, jobId |-> ""]
            /\ UNCHANGED <<db, task, knowledgeBase, embeddings, idPool, clock,
                           faults, cancels, updateErrors>>
       ELSE \E ok \in BOOLEAN :
            /\ Outcome(ok)
            /\ startIngestionJob(j, [source |-> source, parameters |-> parameters,
                                     options |-> [generateEmbeddings |-> TRUE,
                                                  batchSize |-> RouteBatchSize]], ok)
            /\ response' = [route |-> "POST /start",
                            status |-> IF ok THEN 202 ELSE 500,
                            jobId |-> IF ok THEN j ELSE ""]

\* A typed call of IngestionService.startIngestionJob with its own options.
StartIngestionJob(j, cfg) ==
    /\ j \in idPool
    /\ \E ok \in BOOLEAN :
        /\ Outcome(ok)
        /\ startIngestionJob(j, cfg, ok)
    /\ UNCHANGED response

cancelJobStatusOnly(j, ok) ==
    /\ db' = IF ok THEN [db EXCEPT ![j] = Merge(@, [status |-> "cancelled"])] ELSE db
    /\ clock' = clock + 1

\* IngestionService.cancelJob
cancelJob(j, ok) ==
    /\ db' = IF ok THEN [db EXCEPT ![j] = Merge(@, [status |-> "cancelled",
                                                    completedAt |-> clock])]
             ELSE db
    /\ clock' = clock + 1

\* router.delete("/job/:jobId")
DeleteJob(j) ==
    /\ cancels < MaxCancels
    /\ cancels' = cancels + 1
    /\ \E ok \in BOOLEAN :
        /\ ok => j \in DOMAIN db
        /\ IF j \in DOMAIN db THEN Outcome(ok) ELSE UNCHANGED faults
        /\ cancelJob(j, ok)
        /\ response' = [route |-> "DELETE /job", status |-> IF ok THEN 200 ELSE 500,
                        jobId |-> j]
    /\ UNCHANGED <<task, knowledgeBase, embeddings, idPool, updateErrors>>

\* The update to running has settled; fetchDataFromSource starts.
RunningWritten(j) ==
    /\ task[j].pc = "running_write"
    /\ \E ok \in BOOLEAN :
        /\ Outcome(ok)
        /\ updateJobStatus(j, ok)
        /\ Resume(j, AfterUpdate(task[j], BeginFetching(task[j]), ok, clock))
    /\ UNCHANGED <<knowledgeBase, embeddings, idPool, cancels, response>>

\* The fetching update has settled; the provider is called, or the source
\* is not supported and the error reaches the catch block.
FetchingWritten(j) ==
    /\ task[j].pc = "fetching_write"
    /\ \E ok \in BOOLEAN :
        /\ Outcome(ok)
        /\ updateJobStatus(j, ok)
        /\ LET t == task[j]
               source == t.config.source
               unsupported ==
                   IngestionErrorMessage(source, <<"Unsupported data source", source>>)
               next == IF source \in Sources
                       THEN [t EXCEPT !.pc = "provider_call"]
                       ELSE CatchBlock(t, IngestionErrorMessage(source,
                                <<"Failed to fetch data from", source>> \o unsupported),
                                clock)
           IN  Resume(j, AfterUpdate(t, next, ok, clock))
    /\ UNCHANGED <<knowledgeBase, embeddings, idPool, cancels, response>>

\* The provider call returns records drawn from `items`, or fails (non-2xx,
\* network, timeout).
ProviderReturnsFrom(j, items) ==
    /\ task[j].pc = "provider_call"
    /\ LET t == task[j]
           source == t.config.source
       IN  \/ \E rawData \in SeqsUpTo(items, MaxRecords) :
                /\ Resume(j, BeginProcessing(t, rawData))
                /\ UNCHANGED faults
           \/ \E message \in ProviderErrors :
                /\ Outcome(FALSE)
                /\ Resume(j, CatchBlock(t, IngestionErrorMessage(source,
                              <<"Failed to fetch data from", source, message>>), clock))
    /\ UNCHANGED <<db, knowledgeBase, embeddings, idPool, cancels, updateErrors,
                   response>>

ProviderReturns(j) == ProviderReturnsFrom(j, RawItems)

\* A processing update has settled; the next record is processed, or the
\* storing phase starts.
ProcessingWritten(j) ==
    /\ task[j].pc = "processing_write"
    /\ \E ok \in BOOLEAN :
        /\ Outcome(ok)
        /\ updateJobStatus(j, ok)
        /\ Resume(j, AfterUpdate(task[j], ProcessLoop(task[j]), ok, clock))
    /\ UNCHANGED <<knowledgeBase, embeddings, idPool, cancels, response>>

\* The first storing update has settled; the first batch starts.
StoringBeginWritten(j) ==
    /\ task[j].pc = "storing_begin_write"
    /\ \E ok \in BOOLEAN :
        /\ Outcome(ok)
        /\ updateJobStatus(j, ok)
        /\ Resume(j, AfterUpdate(task[j], BatchLoop(task[j], 0, clock), ok, clock))
    /\ UNCHANGED <<knowledgeBase, embeddings, idPool, cancels, response>>

\* The progress update of a batch has settled; the delay between batches
\* starts, or the loop ends.
StoringProgressWritten(j) ==
    /\ task[j].pc = "storing_progress_write"
    /\ \E ok \in BOOLEAN :
        /\ Outcome(ok)
        /\ updateJobStatus(j, ok)
        /\ LET t == task[j]
               b == t.b + batchSizeOf(t.config)
               next == IF b < Len(t.documents)
                       THEN [t EXCEPT !.pc = "batch_delay"]
                       ELSE BatchLoop(t, b, clock)
           IN  Resume(j, AfterUpdate(t, next, ok, clock))
    /\ UNCHANGED <<knowledgeBase, embeddings, idPool, cancels, response>>

\* The delay between two batches is over; the next batch starts.
BatchDelayElapsed(j) ==
    /\ task[j].pc = "batch_delay"
    /\ Resume(j, BatchLoop(task[j], task[j].b + batchSizeOf(task[j].config), clock))
    /\ UNCHANGED <<db, knowledgeBase, embeddings, idPool, faults, cancels,
                   updateErrors, response>>

\* FirestoreService.storeDocument returns the id of the new document, or
\* throws.
StoreDocumentReturns(j) ==
    /\ task[j].pc = "store_document"
    /\ \E ok \in BOOLEAN :
        /\ Outcome(ok)
        /\ LET t == task[j]
               stored == [t EXCEPT !.documentId = Len(knowledgeBase) + 1,
                                   !.documentsIngested = @ + 1]
           IN  IF ok
               THEN /\ knowledgeBase' = Append(knowledgeBase,
                           [content |-> CurrentDoc(t).content, job |-> j])
                    /\ IF generateEmbeddingsOf(t.config)
                       THEN Resume(j, [stored EXCEPT !.pc = "generate_embedding", !.c = 0])
                       ELSE Resume(j, NextDocument(stored))
               ELSE /\ UNCHANGED knowledgeBase
                    /\ Resume(j, DocumentFailed(t))
    /\ UNCHANGED <<db, embeddings, idPool, cancels, updateErrors, response>>

\* The text the storing loop embeds at chunk cursor c: the whole content
\* for c = 0, chunk c otherwise.
CurrentText(t) ==
    IF t.c = 0 THEN CurrentDoc(t).content ELSE CurrentDoc(t).chunks[t.c]

\* EmbeddingService.generateEmbedding returns what the embedder answered (a
\* vector drawn from `vectors`), or throws (empty text, or a failing
\* embedder).
GenerateEmbeddingReturnsFrom(j, vectors) ==
    /\ task[j].pc = "generate_embedding"
    /\ LET t == task[j]
           text == CurrentText(t)
       IN  IF TextLen(text) = 0
           THEN /\ Resume(j, DocumentFailed(t))
                /\ UNCHANGED faults
           ELSE \E ok \in BOOLEAN, result \in vectors :
                /\ Outcome(ok)
                /\ IF ok
                   THEN Resume(j, [t EXCEPT !.pc = "store_embedding",
                                            !.embeddingResponse =
                                                [text |-> processedText(text),
                                                 embedding |-> result,
                                                 dimensions |-> vectorDimension]])
                   ELSE Resume(j, DocumentFailed(t))
    /\ UNCHANGED <<db, knowledgeBase, embeddings, idPool, cancels, updateErrors,
                   response>>

GenerateEmbeddingReturns(j) == GenerateEmbeddingReturnsFrom(j, {GoodVector})

\* FirestoreService.storeEmbedding returns, or throws.
StoreEmbeddingReturns(j) ==
    /\ task[j].pc = "store_embedding"
    /\ \E ok \in BOOLEAN :
        /\ Outcome(ok)
        /\ LET t == task[j]
               counted == [t EXCEPT !.embeddingsCreated = @ + 1,
                                    !.embeddingResponse = NoFields]
           IN  IF ok
               THEN /\ embeddings' = Append(embeddings,
                           [documentId |-> t.documentId,
                            embedding |-> t.embeddingResponse.embedding,
                            content |-> CurrentText(t),
                            dimensions |-> t.embeddingResponse.embedding.length,
                            chunkIndex |-> t.c, job |-> j])
                    /\ IF t.c < Len(CurrentDoc(t).chunks)
                       THEN Resume(j, [counted EXCEPT !.c = @ + 1,
                                                      !.pc = "generate_embedding"])
                       ELSE Resume(j, NextDocument(counted))
               ELSE /\ UNCHANGED embeddings
                    /\ Resume(j, DocumentFailed([t EXCEPT !.embeddingResponse = NoFields]))
    /\ UNCHANGED <<db, knowledgeBase, idPool, cancels, updateErrors, response>>

\* The completed update has settled; processIngestionJob returns.
CompletedWritten(j) ==
    /\ task[j].pc = "completed_write"
    /\ \E ok \in BOOLEAN :
        /\ Outcome(ok)
        /\ updateJobStatus(j, ok)
        /\ Resume(j, AfterUpdate(task[j], [task[j] EXCEPT !.pc = "done"], ok, clock))
    /\ UNCHANGED <<knowledgeBase, embeddings, idPool, cancels, response>>

\* The failed update has settled; processIngestionJob rethrows.
FailedWritten(j) ==
    /\ task[j].pc = "failed_write"
    /\ \E ok \in BOOLEAN :
        /\ Outcome(ok)
        /\ updateJobStatus(j, ok)
        /\ Resume(j, AfterUpdate(task[j], [task[j] EXCEPT !.pc = "rejected"], ok, clock))
    /\ UNCHANGED <<knowledgeBase, embeddings, idPool, cancels, response>>

Next ==
    \/ \E j \in AllJobIds, source \in BodySources, parameters \in BodyParameters :
          PostStart(j, source, parameters) /\ UNCHANGED ragVars
    \/ \E j \in AllJobIds, cfg \in ServiceConfigs : StartIngestionJob(j, cfg) /\ UNCHANGED ragVars
    \/ \E j \in AllJobIds : DeleteJob(j) /\ UNCHANGED ragVars
    \/ \E j \in AllJobIds : RunningWritten(j) /\ UNCHANGED ragVars
    \/ \E j \in AllJobIds : FetchingWritten(j) /\ UNCHANGED ragVars
    \/ \E j \in AllJobIds : ProviderReturns(j) /\ UNCHANGED ragVars
    \/ \E j \in AllJobIds : ProcessingWritten(j) /\ UNCHANGED ragVars
    \/ \E j \in AllJobIds : StoringBeginWritten(j) /\ UNCHANGED ragVars
    \/ \E j \in AllJobIds : StoringProgressWritten(j) /\ UNCHANGED ragVars
    \/ \E j \in AllJobIds : BatchDelayElapsed(j) /\ UNCHANGED ragVars
    \/ \E j \in AllJobIds : StoreDocumentReturns(j) /\ UNCHANGED ragVars
    \/ \E j \in AllJobIds : GenerateEmbeddingReturns(j) /\ UNCHANGED ragVars
    \/ \E j \in AllJobIds : StoreEmbeddingReturns(j) /\ UNCHANGED ragVars
    \/ \E j \in AllJobIds : CompletedWritten(j) /\ UNCHANGED ragVars
    \/ \E j \in AllJobIds : FailedWritten(j) /\ UNCHANGED ragVars

Spec == Init /\ [][Next]_vars

(* --------------------------- oversize texts --------------------------- *)
(* The ingestion of records whose text summary is longer than the          *)
(* embedder's maximum text length.                                         *)

\* Characters by which an oversize summary exceeds maxTextLength.
Excess == 2

LongItems == {[kind |-> "object", len |-> maxTextLength + Excess]}

\* A typed call whose chunks are longer than maxTextLength (the route's
\* chunks are at most ConfigChunkSize long).
LongTextConfigs ==
    { [source |-> "gbif", parameters |-> NoFields,
       options |-> [batchSize |-> 1, chunkSize |-> maxTextLength + 1,
                    chunkOverlap |-> 1]] }

NextTruncate ==
    \/ \E j \in AllJobIds : PostStart(j, "gbif", NoFields) /\ UNCHANGED ragVars
    \/ \E j \in AllJobIds, cfg \in LongTextConfigs :
          StartIngestionJob(j, cfg) /\ UNCHANGED ragVars
    \/ \E j \in AllJobIds : RunningWritten(j) /\ UNCHANGED ragVars
    \/ \E j \in AllJobIds : FetchingWritten(j) /\ UNCHANGED ragVars
    \/ \E j \in AllJobIds : ProviderReturnsFrom(j, LongItems) /\ UNCHANGED ragVars
    \/ \E j \in AllJobIds : ProcessingWritten(j) /\ UNCHANGED ragVars
    \/ \E j \in AllJobIds : StoringBeginWritten(j) /\ UNCHANGED ragVars
    \/ \E j \in AllJobIds : StoringProgressWritten(j) /\ UNCHANGED ragVars
    \/ \E j \in AllJobIds : BatchDelayElapsed(j) /\ UNCHANGED ragVars
    \/ \E j \in AllJobIds : StoreDocumentReturns(j) /\ UNCHANGED ragVars
    \/ \E j \in AllJobIds : GenerateEmbeddingReturns(j) /\ UNCHANGED ragVars
    \/ \E j \in AllJobIds : StoreEmbeddingReturns(j) /\ UNCHANGED ragVars
    \/ \E j \in AllJobIds : CompletedWritten(j) /\ UNCHANGED ragVars
    \/ \E j \in AllJobIds : FailedWritten(j) /\ UNCHANGED ragVars

SpecTruncate == Init /\ [][NextTruncate]_vars

(* ------------------------- unvalidated inputs ------------------------- *)
(* Typed calls of startIngestionJob whose chunking options nothing checks  *)
(* (a chunk size below the configured overlap, which an absent overlap     *)
(* falls back to), and an embedder that returns any vector.                *)

UncheckedConfigs ==
    { [source |-> "gbif", parameters |-> NoFields,
       options |-> [batchSize |-> 1, chunkSize |-> 4]] }

NextUnvalidated ==
    \/ \E j \in AllJobIds, cfg \in UncheckedConfigs :
          StartIngestionJob(j, cfg) /\ UNCHANGED ragVars
    \/ \E j \in AllJobIds : RunningWritten(j) /\ UNCHANGED ragVars
    \/ \E j \in AllJobIds : FetchingWritten(j) /\ UNCHANGED ragVars
    \/ \E j \in AllJobIds : ProviderReturns(j) /\ UNCHANGED ragVars
    \/ \E j \in AllJobIds : ProcessingWritten(j) /\ UNCHANGED ragVars
    \/ \E j \in AllJobIds : StoringBeginWritten(j) /\ UNCHANGED ragVars
    \/ \E j \in AllJobIds : StoringProgressWritten(j) /\ UNCHANGED ragVars
    \/ \E j \in AllJobIds : BatchDelayElapsed(j) /\ UNCHANGED ragVars
    \/ \E j \in AllJobIds : StoreDocumentReturns(j) /\ UNCHANGED ragVars
    \/ \E j \in AllJobIds :
          GenerateEmbeddingReturnsFrom(j, EmbedderVectors) /\ UNCHANGED ragVars
    \/ \E j \in AllJobIds : StoreEmbeddingReturns(j) /\ UNCHANGED ragVars
    \/ \E j \in AllJobIds : CompletedWritten(j) /\ UNCHANGED ragVars
    \/ \E j \in AllJobIds : FailedWritten(j) /\ UNCHANGED ragVars

SpecUnvalidated == Init /\ [][NextUnvalidated]_vars

(* ------------------------------ retrieval ----------------------------- *)
(* The retrieval routes (POST /query, POST /search), the vector search of  *)
(* FirestoreService and the two cosine similarity functions.  A vector is  *)
(* a sequence of integers whose Euclidean norm is an integer, so that      *)
(* Math.sqrt is exact; a similarity and a threshold are numbers of         *)
(* hundredths (0.7 is 70).                                                 *)

\* Largest number of stored embeddings a search runs over.
MaxCorpus == 2

maxRetrievalResults == 10
similarityThreshold == 70
RouteMaxResults == 10
RouteThreshold == 70
CandidateFactor == 10
CandidateCap == 1000

\* Embeddings of stored texts and of queries; <<1>> has another dimension.
StoredVectors == {<<1, 0>>, <<3, 4>>, <<4, 3>>, <<0, 0>>}
QueryVectors == {<<1, 0>>, <<3, 4>>, <<0, 0>>, <<1>>}

\* A stored embedding: its vector and its metadata.source.
StoredEmbeddings == [embedding : StoredVectors, source : {"gbif", "ebird"}]

\* Values of maxResults and threshold in a request body (besides absent).
BodyMaxResults == {0, 1, 2}
BodyThresholds == {0, 50, 70, 100}

\* Values of the query text in a request body.
BodyQueries == {"", " ", "jaguar"}

\* The records with the field `embedding` (when the set is not empty) and
\* any of the optional fields maxResults and threshold.
SearchBodies ==
    LET base == {NoFields} \cup {[embedding |-> v] : v \in QueryVectors}
        withMax == base \cup {Merge(b, [maxResults |-> m]) : b \in base, m \in BodyMaxResults}
    IN  withMax \cup {Merge(b, [threshold |-> t]) : b \in withMax, t \in BodyThresholds}

QueryBodies ==
    LET base == {NoFields} \cup {[query |-> q] : q \in BodyQueries}
        withMax == base \cup {Merge(b, [maxResults |-> m]) : b \in base, m \in BodyMaxResults}
        withThreshold ==
            withMax \cup {Merge(b, [threshold |-> t]) : b \in withMax, t \in BodyThresholds}
    IN  withThreshold \cup {Merge(b, [sources |-> <<"gbif">>]) : b \in withThreshold}

\* What the embedder answers to one call: a vector, or an error; NotCalled
\* stands for a request of a route that has no embedder call.
EmbedderError == [called |-> TRUE, error |-> TRUE, embedding |-> << >>]
EmbedderAnswers ==
    {EmbedderError} \cup {[called |-> TRUE, error |-> FALSE, embedding |-> v] : v \in QueryVectors}
NotCalled == [called |-> FALSE, error |-> FALSE, embedding |-> << >>]

\* A destructuring default `{ key = dflt } = obj`: only a missing field takes
\* the default.
FieldOr(obj, key, dflt) == IF key \in DOMAIN obj THEN obj[key] ELSE dflt

\* String.prototype.trim on the query texts.
Trim(s) == IF s = " " THEN "" ELSE s

\* The value of a similarity function: a number, NaN, or a thrown error.
Threw == [error |-> TRUE, nan |-> FALSE, value |-> 0]
NaN == [error |-> FALSE, nan |-> TRUE, value |-> 0]
Number(v) == [error |-> FALSE, nan |-> FALSE, value |-> v]

\* num / den in hundredths; 0 / 0 is NaN.
Divide(num, den) == IF den = 0 THEN NaN ELSE Number((100 * num) \div den)

Sqrt(n) == CHOOSE r \in 0..n : r * r <= n /\ (r + 1) * (r + 1) > n

\* The accumulation loop of the similarity functions from index i on.
RECURSIVE DotProduct(_, _, _)
DotProduct(a, b, i) ==
    IF i > Len(a) THEN 0 ELSE a[i] * b[i] + DotProduct(a, b, i + 1)

calculateSimilarityUnchecked(embedding1, embedding2) ==
    IF Len(embedding1) > Len(embedding2) THEN NaN
    ELSE LET dotProduct == DotProduct(embedding1, embedding2, 1)
             norm1 == DotProduct(embedding1, embedding1, 1)
             norm2 == DotProduct(SubSeq(embedding2, 1, Len(embedding1)),
                                 SubSeq(embedding2, 1, Len(embedding1)), 1)
             magnitude == Sqrt(norm1) * Sqrt(norm2)
         IN  IF magnitude = 0 THEN Number(0) ELSE Divide(dotProduct, magnitude)

\* EmbeddingService.calculateSimilarity
calculateSimilarity(embedding1, embedding2) ==
    IF Len(embedding1) # Len(embedding2) THEN Threw
    ELSE LET dotProduct == DotProduct(embedding1, embedding2, 1)
             norm1 == DotProduct(embedding1, embedding1, 1)
             norm2 == DotProduct(embedding2, embedding2, 1)
             magnitude == Sqrt(norm1) * Sqrt(norm2)
         IN  IF magnitude = 0 THEN Number(0) ELSE Divide(dotProduct, magnitude)

\* FirestoreService.calculateCosineSimilarity
calculateCosineSimilarity(vector1, vector2) ==
    IF Len(vector1) # Len(vector2) THEN Threw
    ELSE LET dotProduct == DotProduct(vector1, vector2, 1)
             norm1 == DotProduct(vector1, vector1, 1)
             norm2 == DotProduct(vector2, vector2, 1)
             magnitude == Sqrt(norm1) * Sqrt(norm2)
         IN  IF magnitude = 0 THEN Number(0) ELSE Divide(dotProduct, magnitude)

\* Array.prototype.slice(0, end)
Slice(seq, end) ==
    IF end < 0 THEN SubSeq(seq, 1, Len(seq) + end) ELSE SubSeq(seq, 1, Min(end, Len(seq)))

\* The ids (positions in storage order) of the stored embeddings that pass
\* the source filter of the query, from position k on.
RECURSIVE Where(_, _, _)
Where(store, query, k) ==
    IF k > Len(store) THEN << >>
    ELSE LET filtered == /\ "filters" \in DOMAIN query
                         /\ "source" \in DOMAIN query.filters
                         /\ Len(query.filters.source) > 0
             pass == filtered => Contains(query.filters.source, store[k].source)
         IN  (IF pass THEN <<k>> ELSE << >>) \o Where(store, query, k + 1)

\* The forEach over the snapshot from position k on: the candidates that
\* pass the threshold, in snapshot order.
RECURSIVE Candidates(_, _, _, _, _)
Candidates(store, snapshot, embedding, threshold, k) ==
    IF k > Len(snapshot) THEN << >>
    ELSE LET similarity == calculateCosineSimilarity(embedding, store[snapshot[k]].embedding)
             rest == Candidates(store, snapshot, embedding, threshold, k + 1)
         IN  IF ~similarity.nan /\ similarity.value >= threshold
             THEN <<[id |-> snapshot[k], source |-> store[snapshot[k]].source,
                     score |-> similarity.value]>> \o rest
             ELSE rest

InsertBeforeTies(sorted, x) ==
    LET k == Cardinality({i \in 1..Len(sorted) : sorted[i].score > x.score})
    IN  SubSeq(sorted, 1, k) \o <<x>> \o SubSeq(sorted, k + 1, Len(sorted))

\* One insertion of the stable sort by descending similarity: x goes after
\* every entry that does not compare greater than it.
InsertDescending(sorted, x) ==
    LET k == Cardinality({i \in 1..Len(sorted) : sorted[i].score >= x.score})
    IN  SubSeq(sorted, 1, k) \o <<x>> \o SubSeq(sorted, k + 1, Len(sorted))

\* candidates.sort((a, b) => b.similarity - a.similarity), from entry k on.
RECURSIVE SortBySimilarity(_, _, _)
SortBySimilarity(candidates, k, sorted) ==
    IF k > Len(candidates) THEN sorted
    ELSE SortBySimilarity(candidates, k + 1, InsertDescending(sorted, candidates[k]))

\* FirestoreService.vectorSearch on the stored embeddings `store`.
vectorSearch(store, query) ==
    LET limit == OrDefault(query, "limit", maxRetrievalResults)
        threshold == OrDefault(query, "threshold", similarityThreshold)
        snapshot == Slice(Where(store, query, 1), Min(limit * CandidateFactor, CandidateCap))
        mismatch == \E k \in 1..Len(snapshot) :
                        calculateCosineSimilarity(query.embedding,
                                                  store[snapshot[k]].embedding).error
        candidates == Candidates(store, snapshot, query.embedding, threshold, 1)
        results == Slice(SortBySimilarity(candidates, 1, << >>), limit)
    IN  IF mismatch
        THEN [error |-> TRUE, results |-> << >>, totalResults |-> 0,
              query |-> [limit |-> limit, threshold |-> threshold]]
        ELSE [error |-> FALSE, results |-> results, totalResults |-> Len(results),
              query |-> [limit |-> limit, threshold |-> threshold]]

\* The arguments the routes pass to vectorSearch.
SearchQuery(body) ==
    [embedding |-> body.embedding,
     limit |-> FieldOr(body, "maxResults", RouteMaxResults),
     threshold |-> FieldOr(body, "threshold", RouteThreshold)]

RagQuery(body, embedding) ==
    IF "sources" \in DOMAIN body
    THEN Merge(SearchQuery(Merge(body, [embedding |-> embedding])),
               [filters |-> [source |-> body.sources]])
    ELSE SearchQuery(Merge(body, [embedding |-> embedding]))

\* The response of a retrieval route to the outcome of its vector search.
SearchReply(route, found) ==
    IF found.error
    THEN [route |-> route, status |-> 500, results |-> << >>, totalResults |-> 0]
    ELSE [route |-> route, status |-> 200, results |-> found.results,
          totalResults |-> found.totalResults]

EmbedFailureReturnsEmpty(route) ==
    [route |-> route, status |-> 200, results |-> << >>, totalResults |-> 0]

\* The catch block of POST /query when generateEmbedding throws.
EmbedFailure(route) ==
    [route |-> route, status |-> 500, results |-> << >>, totalResults |-> 0]

BadRequest(route) ==
    [route |-> route, status |-> 400, results |-> << >>, totalResults |-> 0]

jobVars == <<db, task, knowledgeBase, embeddings, idPool, clock, faults, cancels,
             updateErrors>>

\* The requests of the retrieval routes, and the calls of
\* EmbeddingService.calculateSimilarity; `embed` is the embedder's answer to
\* the call generateEmbedding makes for the request.
Calls ==
    {[route |-> "POST /search", body |-> body, embed |-> NotCalled] : body \in SearchBodies}
    \cup {[route |-> "POST /query", body |-> body, embed |-> embedded] :
              body \in QueryBodies, embedded \in EmbedderAnswers}
    \cup {[route |-> "calculateSimilarity",
           body |-> [embedding1 |-> embedding1, embedding2 |-> embedding2],
           embed |-> NotCalled] : embedding1 \in QueryVectors, embedding2 \in StoredVectors}

\* router.post("/search") on the request in flight.
PostSearch ==
    /\ call.route = "POST /search" /\ response = NoResponse
    /\ IF "embedding" \notin DOMAIN call.body
       THEN /\ response' = BadRequest("POST /search")
            /\ UNCHANGED searchLog
       ELSE /\ response' = SearchReply("POST /search",
                                       vectorSearch(embeddings, SearchQuery(call.body)))
            /\ searchLog' = searchLog + 1
    /\ UNCHANGED <<jobVars, call, batch>>

\* router.post("/query") on the request in flight.
PostQuery ==
    /\ call.route = "POST /query" /\ response = NoResponse
    /\ IF "query" \notin DOMAIN call.body \/ Trim(call.body.query) = ""
       THEN /\ response' = BadRequest("POST /query")
            /\ UNCHANGED searchLog
       ELSE IF call.embed.error
            THEN /\ response' = EmbedFailure("POST /query")
                 /\ UNCHANGED searchLog
            ELSE /\ response' = SearchReply("POST /query",
                        vectorSearch(embeddings, RagQuery(call.body, call.embed.embedding)))
                 /\ searchLog' = searchLog + 1
    /\ UNCHANGED <<jobVars, call, batch>>

\* A call of EmbeddingService.calculateSimilarity.
CalculateSimilarity ==
    /\ call.route = "calculateSimilarity" /\ response = NoResponse
    /\ response' = [route |-> "calculateSimilarity", status |-> 0,
                    result |-> calculateSimilarity(call.body.embedding1,
                                                   call.body.embedding2)]
    /\ UNCHANGED <<jobVars, call, searchLog, batch>>

\* The embeddings collection holds any stored embeddings, one request is in
\* flight and no job runs.
InitSearch ==
    /\ db = << >>
    /\ task = [j \in AllJobIds |-> IdleTask]
    /\ knowledgeBase = << >>
    /\ embeddings \in SeqsUpTo(StoredEmbeddings, MaxCorpus)
    /\ idPool = {}
    /\ clock = 1
    /\ faults = 0
    /\ cancels = 0
    /\ updateErrors = [j \in AllJobIds |-> 0]
    /\ response = NoResponse
    /\ call \in Calls
    /\ searchLog = 0
    /\ batch = IdleBatch

NextSearch ==
    \/ PostSearch
    \/ PostQuery
    \/ CalculateSimilarity

SpecSearch == InitSearch /\ [][NextSearch]_vars

(* ------------------------------ chunking ------------------------------ *)

\* The calls of chunkText: a text of any length up to MaxTextLen with any
\* chunk size and overlap, whether or not processDocuments would pass them.
ChunkCalls ==
    {[route |-> "chunkText",
      body |-> [text |-> Text(0, L), chunkSize |-> S, overlap |-> O]] :
        L \in 0..MaxTextLen, S \in 1..MaxTextLen, O \in 0..MaxTextLen}

\* A call of IngestionService.chunkText; returned is FALSE when the while
\* loop does not end.
ChunkText ==
    /\ call.route = "chunkText" /\ response = NoResponse
    /\ LET result == chunkText(call.body.text, call.body.chunkSize, call.body.overlap)
       IN  response' = [route |-> "chunkText", status |-> 0,
                        returned |-> result.done, chunks |-> result.chunks]
    /\ UNCHANGED <<jobVars, call, searchLog, batch>>

InitChunk ==
    /\ db = << >>
    /\ task = [j \in AllJobIds |-> IdleTask]
    /\ knowledgeBase = << >>
    /\ embeddings = << >>
    /\ idPool = {}
    /\ clock = 1
    /\ faults = 0
    /\ cancels = 0
    /\ updateErrors = [j \in AllJobIds |-> 0]
    /\ response = NoResponse
    /\ call \in ChunkCalls
    /\ searchLog = 0
    /\ batch = IdleBatch

NextChunk == ChunkText

SpecChunk == InitChunk /\ [][NextChunk]_vars

(* --------------------------- batch embedding -------------------------- *)

\* The texts of a batch request: an empty text, which generateEmbedding
\* rejects, and a text the embedder is asked about.
BatchTexts == {Text(0, 0), Text(0, ShortLen)}

BatchRequests ==
    {[texts |-> texts] : texts \in SeqsUpTo(BatchTexts, MaxTexts)}
    \cup {[texts |-> texts, batchSize |-> size] :
              texts \in SeqsUpTo(BatchTexts, MaxTexts), size \in 0..MaxBatchSize}

BatchCalls ==
    {[route |-> "generateBatchEmbeddings", body |-> request] : request \in BatchRequests}

\* const batchSize = request.batchSize || this.batchSize
batchSizeOfRequest(request) == OrDefault(request, "batchSize", EmbedBatchSize)

\* The promise of one text of the request: not created yet, pending, or
\* settled with the embedding or with null.
NotStarted == [state |-> "pending"]
InFlight == [state |-> "inflight"]
Failed == [state |-> "failed"]
Embedded(result) == [state |-> "ok", result |-> result]

\* What generateEmbedding resolves to for text k of the request (k from 1;
\* the code's textIndex counts from 0).
EmbeddingOf(request, k) ==
    [text |-> processedText(request.texts[k]), embedding |-> GoodVector,
     dimensions |-> vectorDimension, textIndex |-> k - 1]

LaunchEveryText(b, request) ==
    [b EXCEPT !.pc = "awaitAll",
              !.items = [k \in 1..Len(request.texts) |->
                            IF k > b.i THEN InFlight ELSE b.items[k]]]

\* batch = texts.slice(i, i + batchSize); batch.map(async ...): every text
\* of the slice gets its generateEmbedding call, then Promise.all is awaited.
LaunchBatch(b, request) ==
    [b EXCEPT !.pc = "awaitAll",
              !.items = [k \in 1..Len(request.texts) |->
                            IF k > b.i /\ k <= b.i + batchSizeOfRequest(request)
                            THEN InFlight ELSE b.items[k]]]

ItemCatchRethrows(b, k) ==
    [b EXCEPT !.items[k] = Failed, !.errorCount = @ + 1, !.pc = "thrown"]

\* The catch of one text's callback: count the error, return null.
ItemCatch(b, k) ==
    [b EXCEPT !.items[k] = Failed, !.errorCount = @ + 1]

\* The try of one text's callback after its await: count, return the embedding.
ItemSucceeded(b, request, k) ==
    [b EXCEPT !.items[k] = Embedded(EmbeddingOf(request, k)),
              !.successCount = @ + 1]

\* batchResults.forEach(result => { if (result) embeddings.push(result) })
\* over the texts i+1 .. i+batchSize of the request.
CollectBatch(b, request) ==
    LET hi == Min(b.i + batchSizeOfRequest(request), Len(request.texts))
        slice == SubSeq(b.items, b.i + 1, hi)
        succeeded == SelectSeq(slice, LAMBDA item : item.state = "ok")
    IN  b.embeddings \o [k \in 1..Len(succeeded) |-> succeeded[k].result]

\* The BatchEmbeddingResponse the call resolves to.
BatchReply(b, request) ==
    [route |-> "generateBatchEmbeddings", status |-> 0, thrown |-> FALSE,
     embeddings |-> b.embeddings, totalTexts |-> Len(request.texts),
     successCount |-> b.successCount, errorCount |-> b.errorCount]

\* The outer catch: throw new RAGError("batch_embedding", ...).
BatchThrown ==
    [route |-> "generateBatchEmbeddings", status |-> 0, thrown |-> TRUE,
     embeddings |-> << >>, totalTexts |-> 0, successCount |-> 0, errorCount |-> 0]

\* generateBatchEmbeddings up to its first await: with no text the loop is
\* skipped and the call returns, otherwise the first batch is started.
GenerateBatchEmbeddings ==
    /\ call.route = "generateBatchEmbeddings" /\ batch.pc = "idle"
    /\ LET request == call.body
           locals == [IdleBatch EXCEPT
                         !.items = [k \in 1..Len(request.texts) |-> NotStarted]]
       IN  IF Len(request.texts) = 0
           THEN /\ batch' = [locals EXCEPT !.pc = "returned"]
                /\ response' = BatchReply(locals, request)
           ELSE /\ batch' = LaunchBatch(locals, request)
                /\ UNCHANGED response
    /\ UNCHANGED <<jobVars, call, searchLog>>

\* The generateEmbedding call of text k settles and the rest of its
\* callback runs; the callback runs to its end before any other callback
\* does, so its increment of the shared counter is one step.  An empty text
\* is rejected by generateEmbedding's validation.
EmbeddingSettles(k) ==
    /\ call.route = "generateBatchEmbeddings" /\ batch.pc = "awaitAll"
    /\ k \in 1..Len(batch.items) /\ batch.items[k].state = "inflight"
    /\ \E ok \in BOOLEAN :
          /\ ok => TextLen(call.body.texts[k]) > 0
          /\ LET settled == IF ok THEN ItemSucceeded(batch, call.body, k)
                                  ELSE ItemCatch(batch, k)
             IN  /\ batch' = settled
                 /\ response' = IF settled.pc = "thrown" THEN BatchThrown ELSE response
    /\ UNCHANGED <<jobVars, call, searchLog>>

\* Promise.all resolves: collect the batch, then either wait for the delay
\* before the next batch or return.
BatchSettled ==
    /\ call.route = "generateBatchEmbeddings" /\ batch.pc = "awaitAll"
    /\ \A k \in 1..Len(batch.items) : batch.items[k].state # "inflight"
    /\ LET request == call.body
           collected == [batch EXCEPT !.embeddings = CollectBatch(batch, request)]
       IN  IF batch.i + batchSizeOfRequest(request) < Len(request.texts)
           THEN /\ batch' = [collected EXCEPT !.pc = "delay"]
                /\ UNCHANGED response
           ELSE /\ batch' = [collected EXCEPT !.pc = "returned"]
                /\ response' = BatchReply(collected, request)
    /\ UNCHANGED <<jobVars, call, searchLog>>

\* The delay between two batches is over: i += batchSize, next batch.
RateLimitDelayElapsed ==
    /\ call.route = "generateBatchEmbeddings" /\ batch.pc = "delay"
    /\ batch' = LaunchBatch([batch EXCEPT !.i = @ + batchSizeOfRequest(call.body)],
                            call.body)
    /\ UNCHANGED <<jobVars, call, searchLog, response>>

InitBatch ==
    /\ db = << >>
    /\ task = [j \in AllJobIds |-> IdleTask]
    /\ knowledgeBase = << >>
    /\ embeddings = << >>
    /\ idPool = {}
    /\ clock = 1
    /\ faults = 0
    /\ cancels = 0
    /\ updateErrors = [j \in AllJobIds |-> 0]
    /\ response = NoResponse
    /\ call \in BatchCalls
    /\ searchLog = 0
    /\ batch = IdleBatch

NextBatch ==
    \/ GenerateBatchEmbeddings
    \/ \E k \in 1..MaxTexts : EmbeddingSettles(k)
    \/ BatchSettled
    \/ RateLimitDelayElapsed

SpecBatch == InitBatch /\ [][NextBatch]_vars

(* ------------------------------ claims -------------------------------- *)

Jobs == DOMAIN db
Terminal == {"completed", "failed", "cancelled"}

\* The task of job j awaited an update of the job document in this step and
\* the update failed.
UpdateFailedStep(j) == updateErrors'[j] > updateErrors[j]

\* The task of job j awaited a store or embed call of the storing phase in
\* this step and the call threw.
DocumentCallFailedStep(j) ==
    /\ task[j].pc \in {"store_document", "generate_embedding", "store_embedding"}
    /\ task'[j].errors > task[j].errors

\* The route DELETE /job/:jobId answered 200 for job j in this step.
CancelStep(j) ==
    /\ cancels' = cancels + 1
    /\ response'.route = "DELETE /job" /\ response'.status = 200
    /\ response'.jobId = j

\* Documents and embeddings job j has written.
DocumentsOf(j) == {k \in 1..Len(knowledgeBase) : knowledgeBase[k].job = j}
EmbeddingsOf(j) == {k \in 1..Len(embeddings) : embeddings[k].job = j}

\* Records the provider returned for job j, and those among them whose
\* normalisation throws.
Fetched(j) == Len(task[j].rawData)
Throwing(j) ==
    Cardinality({k \in 1..Len(task[j].rawData) : task[j].rawData[k].kind = "null"})

\* C1: every change of a job's persisted status is one of queued->running,
\* running->completed, running->failed, running->cancelled.  The cancel of a
\* queued job (queued->cancelled, Scenario C of the specification) is granted
\* to the claim, so that a violation is a change no part of the specification
\* allows.
StatusEdges ==
    {<<"queued", "running">>, <<"running", "completed">>, <<"running", "failed">>,
     <<"running", "cancelled">>, <<"queued", "cancelled">>}
C1_OnlyStatusEdges ==
    [][\A j \in Jobs :
         db'[j].status # db[j].status => <<db[j].status, db'[j].status>> \in StatusEdges]_vars

\* C2: once a job's persisted status is completed, failed or cancelled, it is
\* never running or queued afterwards.
C2_NeverBackward ==
    [][\A j \in Jobs :
         db[j].status \in Terminal => db'[j].status \notin {"queued", "running"}]_vars

\* C3: while a job's persisted status is cancelled, its task starts no new
\* record of the processing phase and no new batch of the storing phase.
StartsRecord(j) == task'[j].i > task[j].i
StartsBatch(j) ==
    /\ task'[j].pc = "store_document"
    /\ task[j].pc \in {"storing_begin_write", "batch_delay"}
C3_CancelStopsWork ==
    [][\A j \in Jobs :
         db[j].status = "cancelled" => ~StartsRecord(j) /\ ~StartsBatch(j)]_vars

\* C4: a cancel of a queued job leaves the job cancelled with completedAt set
\* (to the time of the cancel) in the state right after it.
C4_CancelQueued ==
    [][\A j \in Jobs :
         (db[j].status = "queued" /\ CancelStep(j)) =>
            /\ db'[j].status = "cancelled"
            /\ "completedAt" \in DOMAIN db'[j]
            /\ db'[j].completedAt = clock]_vars
C4_Witness ==
    \E j \in Jobs :
        /\ db[j].status = "cancelled" /\ "completedAt" \in DOMAIN db[j]
        /\ "startedAt" \notin DOMAIN db[j]
        /\ task[j].pc = "running_write"
        /\ response = [route |-> "DELETE /job", status |-> 200, jobId |-> j]

\* C5: a completed job whose fetch returned N records of which M < N threw in
\* processing, with no failing store, embed or update call, has
\* results.errors = M and results.documentsIngested = N - M.
C5_PartialFailureCounted ==
    \A j \in Jobs :
        (db[j].status = "completed" /\ faults = 0 /\ Throwing(j) < Fetched(j)) =>
            /\ db[j].results.errors = Throwing(j)
            /\ db[j].results.documentsIngested = Fetched(j) - Throwing(j)

\* C6: when the provider call of a job fails, the failed update carries the
\* error message, which holds the provider's message; the job's phase stays
\* fetching and the job writes no document and no embedding.
FetchFailed(j) == task[j].caught # << >>
C6_FetchFailureState ==
    \A j \in Jobs :
        FetchFailed(j) =>
            /\ db[j].progress.phase = "fetching"
            /\ DocumentsOf(j) = {} /\ EmbeddingsOf(j) = {}
            /\ \E m \in ProviderErrors : Contains(task[j].caught, m)
            /\ task[j].pc \in {"failed_write", "rejected"}
C6_FailedUpdateStep ==
    \A j \in Jobs :
        (task[j].pc = "failed_write" /\ task'[j].pc = "rejected" /\ ~UpdateFailedStep(j)) =>
            /\ db'[j].status = "failed"
            /\ db'[j].error = task[j].caught
C6_FetchFailureFatal == [] C6_FetchFailureState /\ [][C6_FailedUpdateStep]_vars
C6_Witness ==
    \E j \in Jobs :
        /\ task[j].pc = "rejected" /\ db[j].status = "failed"
        /\ \E m \in ProviderErrors : Contains(db[j].error, m)

\* C7 as claimed: after a failing update of the job's status record, the task
\* is in its catch block (the job is being set to failed) or has stopped.
C7_UpdateFailureFatal ==
    [][\A j \in Jobs :
         UpdateFailedStep(j) => task'[j].pc \in {"failed_write", "rejected"}]_vars

\* C7 as amended: a failing update of the job's status record is logged and
\* swallowed: the job document is left as it was, no error is captured, the
\* task does not enter its catch block and, unless the update was its last
\* one, it goes on with the next record, batch or phase; a job is failed only
\* when its fetch failed.
C7_UpdateFailureStep ==
    \A j \in Jobs :
        UpdateFailedStep(j) =>
            /\ db' = db
            /\ task'[j].caught = task[j].caught
            /\ task[j].pc # "failed_write" => task'[j].pc \notin {"failed_write", "rejected"}
            /\ task[j].pc \notin {"failed_write", "completed_write"} =>
                   task'[j].pc \in WritePcs \cup
                       {"provider_call", "store_document", "batch_delay"}
C7_FailedOnlyByFetch ==
    \A j \in Jobs : db[j].status = "failed" => FetchFailed(j)
C7_UpdateFailureSwallowed == [] C7_FailedOnlyByFetch /\ [][C7_UpdateFailureStep]_vars
C7_Witness ==
    \E j \in Jobs :
        /\ updateErrors[j] > 0 /\ task[j].pc = "done"
        /\ db[j].status = "completed" /\ db[j].results.documentsIngested > 0

\* C8: a failing storeDocument, generateEmbedding or storeEmbedding call adds
\* exactly one to the errors of the job and the loop goes on with the next
\* document or with the end of the batch; when the storing phase is over every
\* document was attempted (stored, or counted as an error), and the job whose
\* completed update lands is completed.
C8_DocumentFailureStep ==
    \A j \in Jobs :
        DocumentCallFailedStep(j) =>
            /\ task'[j].errors = task[j].errors + 1
            /\ task'[j].caught = << >>
            /\ \/ /\ task'[j].pc = "store_document"
                  /\ task'[j].b = task[j].b /\ task'[j].d = task[j].d + 1
               \/ /\ task'[j].pc = "storing_progress_write"
                  /\ task[j].b + task[j].d + 1 =
                        Min(task[j].b + batchSizeOf(task[j].config), Len(task[j].documents))
C8_AllAttempted ==
    \A j \in Jobs :
        task[j].pc \in {"completed_write", "done"} =>
            /\ task[j].documentsIngested + task[j].errors >= Len(task[j].documents)
            /\ Cardinality(DocumentsOf(j)) = task[j].documentsIngested
            /\ task[j].b >= Len(task[j].documents)
C8_CompletedStep ==
    \A j \in Jobs :
        (task[j].pc = "completed_write" /\ task'[j].pc = "done" /\ ~UpdateFailedStep(j)) =>
            /\ db'[j].status = "completed"
            /\ db'[j].results.errors = task[j].errors
C8_DocumentFailureIsolated ==
    [] C8_AllAttempted /\ [][C8_DocumentFailureStep /\ C8_CompletedStep]_vars
C8_Witness ==
    \E j \in Jobs :
        /\ db[j].status = "completed" /\ db[j].results.errors = 1
        /\ batchSizeOf(task[j].config) = 1
        /\ Len(task[j].documents) = 2
        /\ task[j].documents[1].content # task[j].documents[2].content
        /\ Len(knowledgeBase) = 1
        /\ knowledgeBase[1].content = task[j].documents[2].content

\* C9: a job whose persisted status is completed has phase completed,
\* percentage 100 and its results (documentsIngested, embeddingsCreated,
\* errors) set.
C9_CompletedRecord ==
    \A j \in Jobs :
        db[j].status = "completed" =>
            /\ db[j].progress.phase = "completed"
            /\ db[j].progress.percentage = 100
            /\ "results" \in DOMAIN db[j]
            /\ DOMAIN db[j].results = {"documentsIngested", "embeddingsCreated", "errors"}
            /\ db[j].results.documentsIngested = task[j].documentsIngested
            /\ db[j].results.embeddingsCreated = task[j].embeddingsCreated
            /\ db[j].results.errors = task[j].errors
C9_Witness ==
    \E j \in Jobs :
        /\ db[j].status = "completed"
        /\ db[j].results.documentsIngested = 2
        /\ db[j].results.embeddingsCreated > 2

\* C10: no job document is persisted and no processing task exists for a
\* source that is not one of gbif, iucn, obis, ebird, and the step in which
\* POST /start answers 400 changes neither the job collection nor any task nor
\* the stores.
C10_NoUnsupportedJob ==
    /\ \A j \in Jobs : db[j].source \in Sources
    /\ \A j \in AllJobIds : task[j].pc # "idle" => task[j].config.source \in Sources
C10_RejectedStep ==
    (response' # response /\ response'.route = "POST /start" /\ response'.status = 400) =>
        UNCHANGED <<db, task, idPool, knowledgeBase, embeddings>>
C10_UnsupportedSourceRejected == [] C10_NoUnsupportedJob /\ [][C10_RejectedStep]_vars
C10_Witness ==
    /\ response = [route |-> "POST /start", status |-> 400, jobId |-> ""]
    /\ db = << >>
    /\ \A j \in AllJobIds : task[j].pc = "idle"

(* ------------------- claims on counters and phases -------------------- *)

\* C17: for every completed job, results.documentsIngested is at most the
\* number of records the provider returned, whatever failures occur.
C17_IngestedAtMostFetched ==
    \A j \in Jobs :
        db[j].status = "completed" => db[j].results.documentsIngested <= Fetched(j)

\* A completed job that lost one of its two records.
C17_Witness ==
    \E j \in Jobs :
        /\ db[j].status = "completed" /\ Fetched(j) = 2
        /\ db[j].results.documentsIngested = 1 /\ db[j].results.errors = 1

\* C18: in every state of a job record progress.total >= 0 and
\* progress.processed <= progress.total, in every phase and for every
\* request limit the start route accepts.
C18_ProgressBounds ==
    \A j \in Jobs :
        /\ db[j].progress.total >= 0
        /\ db[j].progress.processed <= db[j].progress.total

\* C19: while a job's persisted phase stays the same, its persisted
\* progress.percentage never decreases, including when records or documents
\* fail or a progress write is lost.
C19_PercentageMonotone ==
    [][\A j \in Jobs :
         db'[j].progress.phase = db[j].progress.phase =>
             db'[j].progress.percentage >= db[j].progress.percentage]_vars

\* The processing phase reached 100 although one progress write was lost and
\* one record failed.
C19_Witness ==
    \E j \in Jobs :
        /\ db[j].progress.phase = "processing" /\ db[j].progress.percentage = 100
        /\ updateErrors[j] = 1 /\ Throwing(j) = 1 /\ Fetched(j) = 2

PhaseRank(phase) ==
    CASE phase = "fetching" -> 1
      [] phase = "processing" -> 2
      [] phase \in {"embedding", "storing"} -> 3
      [] phase = "completed" -> 4

\* Positions of the task at which the provider has not returned yet.
BeforeFetchReturned == {"idle", "running_write", "fetching_write", "provider_call"}

C20_PhaseState ==
    \A j \in Jobs :
        /\ db[j].progress.phase # "fetching" => task[j].pc \notin BeforeFetchReturned
        /\ db[j].progress.phase \in {"embedding", "storing", "completed"} =>
               task[j].i = Len(task[j].rawData)

C20_PhaseStep ==
    \A j \in Jobs :
        PhaseRank(db'[j].progress.phase) >= PhaseRank(db[j].progress.phase)

\* C20: the persisted phase only moves forward through fetching, processing,
\* embedding/storing, completed and never returns to an earlier phase;
\* processing is persisted only after the fetch has returned, and storing only
\* after every fetched record has been processed.
C20_PhaseForward == []C20_PhaseState /\ [][C20_PhaseStep]_vars

\* The storing phase of a job with two records, one phase write of which was
\* lost.
C20_Witness ==
    \E j \in Jobs :
        /\ db[j].progress.phase = "storing" /\ Fetched(j) = 2
        /\ task[j].i = 2 /\ updateErrors[j] = 1

\* The persisted phase of job j moves to a later phase in this step.
PhaseAdvanceStep(j) ==
    PhaseRank(db'[j].progress.phase) > PhaseRank(db[j].progress.phase)

\* C21 as stated: whenever a job's persisted phase advances, the persisted
\* percentage is 0 right after the advance, for every phase change
\* (fetching to processing, processing to storing, storing to completed).
C21_AdvanceResetsPercentage ==
    [][\A j \in Jobs :
         PhaseAdvanceStep(j) => db'[j].progress.percentage = 0]_vars

\* C21 amended: the advance to completed sets the percentage to 100; an
\* advance to processing or to storing sets it to 0 when no earlier update of
\* the job was lost (the phase then advances with the first update of the
\* phase).
C21_AdvancePercentage ==
    [][\A j \in Jobs :
         PhaseAdvanceStep(j) =>
             IF db'[j].progress.phase = "completed"
             THEN db'[j].progress.percentage = 100
             ELSE updateErrors[j] = 0 => db'[j].progress.percentage = 0]_vars

\* The first update of the storing phase has just landed, after two records
\* were processed and no update was lost.
C21_Witness ==
    \E j \in Jobs :
        /\ db[j].progress = Progress("storing", 0, 2, 0)
        /\ task[j].pc = "store_document" /\ task[j].b = 0 /\ task[j].d = 0
        /\ updateErrors[j] = 0

\* The sum over the documents from position k on of 1 + number of chunks.
RECURSIVE EmbeddingsDue(_, _)
EmbeddingsDue(documents, k) ==
    IF k > Len(documents) THEN 0
    ELSE 1 + Len(documents[k].chunks) + EmbeddingsDue(documents, k + 1)

\* C22: for a completed job in which no store or embed call failed
\* (results.errors = 0): with embedding enabled, results.embeddingsCreated is
\* the sum over the stored documents of 1 + number of chunks and is the
\* number of embeddings the job wrote; with generateEmbeddings false the job
\* wrote no embedding and embeddingsCreated is 0.
C22_EmbeddingsCounted ==
    \A j \in Jobs :
        (db[j].status = "completed" /\ db[j].results.errors = 0) =>
            LET options == db[j].config.options
                disabled == /\ "generateEmbeddings" \in DOMAIN options
                            /\ options.generateEmbeddings = FALSE
                due == IF disabled THEN 0 ELSE EmbeddingsDue(task[j].documents, 1)
            IN  /\ db[j].results.documentsIngested = Len(task[j].documents)
                /\ db[j].results.embeddingsCreated = due
                /\ Cardinality(EmbeddingsOf(j)) = due

\* A completed job without failures that stored a document with two chunks
\* and a document without chunks.
C22_Witness ==
    \E j \in Jobs :
        /\ db[j].status = "completed" /\ db[j].results.errors = 0
        /\ db[j].results.documentsIngested = 2
        /\ db[j].results.embeddingsCreated = 4

\* At the end of the storing phase the counters are within the number of
\* processed documents, and a document is counted as ingested exactly when
\* its storeDocument succeeded.
C29_EndOfStoring ==
    \A j \in Jobs :
        task[j].pc \in {"completed_write", "done"} =>
            LET D == Len(task[j].documents)
            IN  /\ task[j].documentsIngested <= D
                /\ task[j].errors <= D
                /\ task[j].documentsIngested + task[j].errors >= D
                /\ task[j].documentsIngested = Cardinality(DocumentsOf(j))

\* An embed or embedding-store call of a stored document fails: the document
\* stays counted as ingested, is counted as an error, and the loop leaves the
\* document (its remaining chunks are skipped).
C29_EmbedFailureStep ==
    \A j \in Jobs :
        (/\ task[j].pc \in {"generate_embedding", "store_embedding"}
         /\ task'[j].errors > task[j].errors) =>
            /\ task'[j].errors = task[j].errors + 1
            /\ task'[j].documentsIngested = task[j].documentsIngested
            /\ task[j].documentsIngested >= 1
            /\ task'[j].pc \in {"store_document", "storing_progress_write"}
            /\ task'[j].pc = "store_document" => task'[j].d = task[j].d + 1
            /\ embeddings' = embeddings

\* C29: at the end of the storing phase over D processed documents,
\* documentsIngested <= D, errors <= D and documentsIngested + errors >= D; a
\* document whose store succeeded and whose embedding or embedding-store step
\* failed is counted in both and its remaining chunks are skipped.
C29_CountedInBoth == []C29_EndOfStoring /\ [][C29_EmbedFailureStep]_vars

\* A finished storing phase with a document counted in both counters, its
\* chunks skipped.
C29_Witness ==
    \E j \in Jobs :
        /\ task[j].pc = "done"
        /\ task[j].documentsIngested + task[j].errors > Len(task[j].documents)
        /\ \E k \in 1..Len(task[j].documents) : Len(task[j].documents[k].chunks) > 0
        /\ Cardinality(EmbeddingsOf(j)) < EmbeddingsDue(task[j].documents, 1)

\* Positions of the task at which it awaits a progress update.
ProgressWritePcs == {"fetching_write", "processing_write", "storing_begin_write",
                     "storing_progress_write"}

\* The record of job j changes in this step in the fields `changed` at most.
OnlyFieldsChange(j, changed) ==
    /\ DOMAIN db'[j] \subseteq DOMAIN db[j] \cup changed
    /\ \A f \in DOMAIN db[j] \ changed : f \in DOMAIN db'[j] /\ db'[j][f] = db[j][f]

\* C28: job-record mutations are partial updates that never revert a prior
\* write: a progress update changes only the progress field, cancel changes
\* only status and completedAt, no update to one job's record changes another
\* job's record, and no write by the job's processing task undoes a value
\* (status, completedAt) written earlier by cancel.
C28_PartialUpdates ==
    [][\A j \in Jobs :
         /\ (task[j].pc \in ProgressWritePcs /\ task'[j] # task[j]) =>
                OnlyFieldsChange(j, {"progress"})
         /\ (cancels' = cancels + 1 /\ response'.jobId = j) =>
                OnlyFieldsChange(j, {"status", "completedAt"})
         /\ db'[j] # db[j] => \A k \in Jobs \ {j} : db'[k] = db[k]
         /\ (db[j].status = "cancelled" /\ task'[j] # task[j]) =>
                /\ db'[j].status = "cancelled"
                /\ db'[j].completedAt = db[j].completedAt]_vars

(* --------------------- claims on unvalidated inputs ------------------- *)

\* C23: every persisted StoredEmbedding has a vector whose length is the
\* configured dimension and whose components are all finite, whatever vector
\* the embedder returned.
C23_StoredVectorsValid ==
    \A k \in 1..Len(embeddings) :
        /\ embeddings[k].embedding.length = vectorDimension
        /\ embeddings[k].embedding.finite

\* C27: for every job that reached the processing phase, the chunk size and
\* the overlap used for chunking (the job's options, or the configuration
\* when an option is absent) satisfy chunkSize > overlap >= 0.
C27_ChunkOptionsValid ==
    \A j \in Jobs :
        task[j].pc \notin BeforeFetchReturned =>
            /\ chunkSizeOf(task[j].config) > chunkOverlapOf(task[j].config)
            /\ chunkOverlapOf(task[j].config) >= 0

\* C30: the task of a persisted job that is never cancelled terminates and
\* the job's persisted status becomes completed or failed.  Checked on finite
\* runs: the task is never inside a loop it cannot leave (chunkText), and
\* once the task has ended, after which nothing writes the record, the
\* status is completed or failed.
C30_EndsTerminal ==
    \A j \in Jobs :
        cancels = 0 =>
            /\ task[j].pc # "chunking"
            /\ task[j].pc \in {"done", "rejected"} =>
                   db[j].status \in {"completed", "failed"}

(* -------------------------- claims on chunking ------------------------ *)

CeilDiv(a, b) == (a + b - 1) \div b

\* The windows the specification gives for a text of length L.
ExpectedChunk(i, L, S, O) == Text(i * (S - O), Min(i * (S - O) + S, L))

\* C26: for a text of length L, chunk size S and overlap O with
\* 0 <= O < S and L > S, chunkText returns, and returns exactly the windows
\* [i(S-O), min(i(S-O)+S, L)) for i = 0 .. ceil((L-O)/(S-O))-1: the count is
\* ceil((L-O)/(S-O)), only the last chunk may be shorter than S, and chunk 0
\* followed by every later chunk without its first O characters is the text.
C26_ChunkWindows ==
    response.route = "chunkText" =>
        LET L == TextLen(call.body.text)
            S == call.body.chunkSize
            O == call.body.overlap
            chunks == response.chunks
            n == CeilDiv(L - O, S - O)
        IN  (0 <= O /\ O < S /\ L > S) =>
                /\ response.returned
                /\ Len(chunks) = n
                /\ \A i \in 1..n : chunks[i] = ExpectedChunk(i - 1, L, S, O)
                /\ \A i \in 1..(n - 1) : TextLen(chunks[i]) = S
                /\ TextLen(chunks[n]) <= S
                /\ chunks[1].from = call.body.text.from
                /\ chunks[n].to = call.body.text.to
                /\ \A i \in 2..n : /\ chunks[i].from + O = chunks[i - 1].to
                                    /\ chunks[i].from + O < chunks[i].to

\* Witness: a text cut into three or more overlapping chunks, the last one
\* shorter than the chunk size.
C26_Witness ==
    /\ response.route = "chunkText"
    /\ call.body.overlap > 0
    /\ call.body.overlap < call.body.chunkSize
    /\ TextLen(call.body.text) > call.body.chunkSize
    /\ response.returned
    /\ Len(response.chunks) >= 3
    /\ TextLen(response.chunks[Len(response.chunks)]) < call.body.chunkSize

(* ----------------------- claims on batch embedding -------------------- *)

\* The texts of the request whose own generateEmbedding call succeeded.
SucceededTexts == {k \in 1..Len(batch.items) : batch.items[k].state = "ok"}
FailedTexts == {k \in 1..Len(batch.items) : batch.items[k].state = "failed"}
InFlightTexts == {k \in 1..Len(batch.items) : batch.items[k].state = "inflight"}

\* C24: generateBatchEmbeddings never throws, and when it returns every
\* text had its own call (none was skipped because another one failed),
\* successCount + errorCount is the number of texts, and the embeddings are
\* exactly those of the texts whose call succeeded, in input order.
C24_BatchIsolatesFailures ==
    /\ batch.pc # "thrown"
    /\ response.route = "generateBatchEmbeddings" =>
          LET texts == call.body.texts
              results == response.embeddings
          IN  /\ ~response.thrown
              /\ response.totalTexts = Len(texts)
              /\ response.successCount + response.errorCount = Len(texts)
              /\ Len(results) = response.successCount
              /\ SucceededTexts \cup FailedTexts = 1..Len(texts)
              /\ {results[n].textIndex + 1 : n \in 1..Len(results)} = SucceededTexts
              /\ \A n \in 1..Len(results) :
                    results[n].text = processedText(texts[results[n].textIndex + 1])
              /\ \A n \in 1..(Len(results) - 1) :
                    results[n].textIndex < results[n + 1].textIndex

\* Witness: a returned call whose first text failed while a later text of
\* the same batch and a text of the next batch were embedded.
C24_Witness ==
    /\ response.route = "generateBatchEmbeddings"
    /\ batchSizeOfRequest(call.body) = 2
    /\ Len(call.body.texts) = 3
    /\ batch.items[1].state = "failed"
    /\ TextLen(call.body.texts[1]) > 0
    /\ batch.items[2].state = "ok"
    /\ batch.items[3].state = "ok"
    /\ Len(response.embeddings) = 2

\* C25: at most batchSize generateEmbedding calls are in flight, a call is
\* in flight only when every call of the earlier batches has settled, and
\* the shared counters equal the numbers of settled successes and failures
\* (so they do when the call returns).
C25_BatchesInTurn ==
    batch.pc # "idle" =>
        LET size == batchSizeOfRequest(call.body)
        IN  /\ Cardinality(InFlightTexts) <= size
            /\ \A k \in InFlightTexts :
                  \A earlier \in 1..(((k - 1) \div size) * size) :
                      batch.items[earlier].state \in {"ok", "failed"}
            /\ batch.successCount = Cardinality(SucceededTexts)
            /\ batch.errorCount = Cardinality(FailedTexts)

\* Witness: with batches of one text, the third call is in flight after one
\* call succeeded and one failed.
C25_Witness ==
    /\ batch.pc = "awaitAll"
    /\ batchSizeOfRequest(call.body) = 1
    /\ batch.i = 2
    /\ InFlightTexts = {3}
    /\ batch.successCount = 1
    /\ batch.errorCount = 1

(* ---------------------- claims on oversize texts ---------------------- *)

\* The task of job j stored an embedding in this step.
EmbeddingStoredStep(j) ==
    /\ task[j].pc = "store_embedding"
    /\ Len(embeddings') = Len(embeddings) + 1

\* C14: a text longer than the embedder's maximum length is embedded
\* truncated, and the text persisted with the embedding is the truncated
\* text the embedder was given (generateEmbedding's `text`), not the
\* original, for the whole-document embedding and for every chunk embedding
\* a job writes.
C14_StoredTextIsTruncated ==
    [][\A j \in Jobs :
         EmbeddingStoredStep(j) =>
             /\ TextLen(task[j].embeddingResponse.text) <= maxTextLength
             /\ embeddings'[Len(embeddings')].content = task[j].embeddingResponse.text]_vars

(* ------------------------- claims on retrieval ------------------------ *)

\* What the request of a retrieval route asked for.
RequestedThreshold == FieldOr(call.body, "threshold", RouteThreshold)
RequestedLimit == FieldOr(call.body, "maxResults", RouteMaxResults)

\* POST /search answered 200 to the request.
SearchAnswered == call.route = "POST /search" /\ response.status = 200

\* C11: for a fixed corpus, query vector and limit, and all thresholds
\* t1 <= t2 a caller may pass (0 included), the search with t2 returns no
\* more results than the search with t1.  The answered search is the
\* one with t1; it is compared with the search of the same request with
\* every t2 >= t1.
C11_ThresholdMonotone ==
    SearchAnswered =>
        \A t2 \in BodyThresholds :
            t2 >= RequestedThreshold =>
                Len(vectorSearch(embeddings,
                        SearchQuery(Merge(call.body, [threshold |-> t2]))).results)
                    <= Len(response.results)

\* C12: every result of an answered search has a similarity of at least the
\* requested threshold, and there are at most as many results as the
\* requested limit, for every threshold and limit a caller passes.
C12_ThresholdAndLimitHonoured ==
    (call.route \in {"POST /search", "POST /query"} /\ response.status = 200) =>
        /\ \A k \in 1..Len(response.results) :
               response.results[k].score >= RequestedThreshold
        /\ Len(response.results) <= RequestedLimit

\* The limit and the threshold vectorSearch works with for the request.
EffectiveLimit == OrDefault(SearchQuery(call.body), "limit", maxRetrievalResults)
EffectiveThreshold == OrDefault(SearchQuery(call.body), "threshold", similarityThreshold)

\* The similarity of stored embedding k to the vector of the request.
ScoreOf(k) == calculateCosineSimilarity(call.body.embedding, embeddings[k].embedding).value

\* The stored embeddings that pass the threshold, and the order the claim
\* gives them: higher similarity first, storage order among equals.
Passing == {k \in 1..Len(embeddings) : ScoreOf(k) >= EffectiveThreshold}
Before(a, b) == ScoreOf(a) > ScoreOf(b) \/ (ScoreOf(a) = ScoreOf(b) /\ a < b)
Rank(a) == Cardinality({b \in Passing : Before(b, a)}) + 1

\* C13: the results are ordered by similarity descending, equal scores keep
\* their storage order, and the returned list is exactly the first `limit`
\* entries of that ordering of the candidates that passed the threshold
\* (limit and threshold as vectorSearch resolved them).
C13_SortedPrefix ==
    SearchAnswered =>
        /\ Len(response.results) = Min(EffectiveLimit, Cardinality(Passing))
        /\ \A m \in 1..Len(response.results) :
               /\ response.results[m].id \in Passing
               /\ response.results[m].score = ScoreOf(response.results[m].id)
               /\ Rank(response.results[m].id) = m

\* Two stored embeddings tie, a third candidate set is cut by the limit.
C13_Witness ==
    /\ SearchAnswered
    /\ Len(response.results) = 2
    /\ response.results[1].score = response.results[2].score
    /\ response.results[1].id = 1

\* The limit cuts an ordering of two different scores.
C13_WitnessCut ==
    /\ SearchAnswered
    /\ Cardinality(Passing) = 2 /\ Len(response.results) = 1
    /\ response.results[1].id = 2

\* POST /query passed its validation and called the embedder in this step,
\* and the embedder failed.
QueryEmbedFailedStep ==
    /\ call.route = "POST /query" /\ call.embed.error
    /\ "query" \in DOMAIN call.body /\ Trim(call.body.query) # ""
    /\ response' # response

\* C15: when the embedding of the query cannot be generated, POST /query
\* answers with an error status, never with a success and an empty list, and
\* the vector search is not executed.
C15_EmbedFailureIsError ==
    [][QueryEmbedFailedStep =>
          /\ response'.route = "POST /query"
          /\ response'.status \notin 200..299
          /\ searchLog' = searchLog]_vars

C15_Witness ==
    /\ call.route = "POST /query" /\ call.embed.error
    /\ "query" \in DOMAIN call.body /\ call.body.query = "jaguar"
    /\ response.status = 500 /\ searchLog = 0
    /\ Len(embeddings) > 0

IsZero(v) == \A i \in 1..Len(v) : v[i] = 0

\* C16: both similarity functions fail with an error when the two vectors
\* differ in length, and for vectors of equal length they return 0, without
\* raising and without dividing by zero, when either vector has zero
\* magnitude.
C16_SimilarityGuards ==
    response.route = "calculateSimilarity" =>
        LET a == call.body.embedding1
            b == call.body.embedding2
            both == {response.result, calculateCosineSimilarity(a, b)}
        IN  /\ Len(a) # Len(b) => \A r \in both : r.error
            /\ (Len(a) = Len(b) /\ (IsZero(a) \/ IsZero(b))) => both = {Number(0)}

C16_Witness ==
    /\ response.route = "calculateSimilarity"
    /\ IsZero(call.body.embedding1) /\ ~IsZero(call.body.embedding2)
    /\ Len(call.body.embedding1) = Len(call.body.embedding2)
    /\ response.result = Number(0)

====
